---------------------------- MODULE Spec2Model ----------------------------
(***************************************************************************)
(* backend/app.py: a FastAPI application with one route, GET /api/hello,   *)
(* behind Starlette's CORSMiddleware configured for the single origin      *)
(* http://localhost:3000 (credentials, all methods, all headers).          *)
(*                                                                         *)
(* A request is [method, path, query, body, headers].  A path is the       *)
(* sequence of its segments after the leading "/": "/api/hello" is        *)
(* <<"api","hello">>, "/api/hello/" is <<"api","hello","">>, "/" is <<"">>.*)
(* Request headers are a function from lower-case header names to values;  *)
(* an absent header is absent from the function's domain.                  *)
(* A response is [status, headers, location, body]; header names are the   *)
(* lower-case names Starlette puts on the wire, content-length is left     *)
(* out, and a redirect's Location is kept as a URL record in `location`.   *)
(* The bodies of the generated documentation pages are named, not spelled. *)
(***************************************************************************)
EXTENDS Naturals, Sequences, FiniteSets, TLC

VARIABLES
    routes,             \* app.router.routes, built when the app is constructed
    middleware_stack,   \* app.middleware_stack: <<>> (None) until the first call
                        \* of the app builds it, then the CORSMiddleware
                        \* with its simple_headers and preflight_headers
    openapi_schema,     \* app.openapi_schema: the cache the first request for
                        \* /openapi.json fills
    conn                \* per connection: the request in flight and its response

vars == <<routes, middleware_stack, openapi_schema, conn>>

(************************* bounds of the model ****************************)
MaxConn == 2        \* connections handled concurrently
MaxTrailing == 1    \* trailing slashes appended to a request path

Conns == 1..MaxConn

(************************ the app's configuration *************************)
\* app.py:10  allow_origins=["http://localhost:3000"]
allow_origins == {"http://localhost:3000"}
\* app.py:11  allow_credentials=True
allow_credentials == TRUE
\* app.py:12  allow_methods=["*"]; CORSMiddleware.__init__ replaces a list
\* holding "*" by ALL_METHODS
ALL_METHODS == <<"DELETE", "GET", "HEAD", "OPTIONS", "PATCH", "POST", "PUT">>
allow_methods_arg == {"*"}
\* Mutant: the "*" is not expanded and the middleware's default stays.
allow_methods_default == <<"GET">>
allow_methods == IF "*" \in allow_methods_arg THEN ALL_METHODS ELSE <<>>
\* app.py:13  allow_headers=["*"]
allow_headers_arg == {"*"}
allow_all_headers == "*" \in allow_headers_arg
\* Mutant: the origins are configured as ["*"].
allow_all_origins_wildcard == TRUE
allow_all_origins == "*" \in allow_origins
preflight_explicit_allow_origin == (~allow_all_origins) \/ allow_credentials

Range(s) == {s[i] : i \in DOMAIN s}

RECURSIVE Join(_)
\* ", ".join(s)
Join(s) ==
    IF s = <<>> THEN ""
    ELSE IF Len(s) = 1 THEN s[1]
    ELSE s[1] \o ", " \o Join(Tail(s))

NoHeaders == <<>>
Header(name, value) == name :> value

\* CORSMiddleware.__init__: the headers added to every non-preflight
\* response of a request that carries an Origin
SimpleHeadersInit ==
    (IF allow_all_origins
        THEN Header("access-control-allow-origin", "*") ELSE NoHeaders)
    @@ (IF allow_credentials
        THEN Header("access-control-allow-credentials", "true") ELSE NoHeaders)

\* CORSMiddleware.__init__: the headers every preflight response starts from
PreflightHeadersInit ==
    (IF preflight_explicit_allow_origin
        THEN Header("vary", "Origin")
        ELSE Header("access-control-allow-origin", "*"))
    @@ Header("access-control-allow-methods", Join(allow_methods))
    @@ Header("access-control-max-age", "600")
    @@ (IF allow_credentials
        THEN Header("access-control-allow-credentials", "true") ELSE NoHeaders)


(****************************** the routes ********************************)
\* A route: its path, the methods it serves, the Allow header of its 405
\* response (", ".join(self.methods)) and the endpoint it calls.
Route(path, methods, allow, endpoint) ==
    [path |-> path, methods |-> methods, allow |-> allow, endpoint |-> endpoint]

\* Starlette's Route adds HEAD to a route that serves GET; the documentation
\* routes are such routes, and self.methods is a set, so the order in which
\* the two methods are joined is fixed for a run by the construction of the
\* set and is one of these two.
DocsAllowOrders == {"GET, HEAD", "HEAD, GET"}

\* Mutant: the greeting is registered with @app.post.
AppRoutesPost(docs_allow) ==
    << Route(<<"openapi.json">>, {"GET", "HEAD"}, docs_allow, "openapi"),
       Route(<<"docs">>, {"GET", "HEAD"}, docs_allow, "swagger_ui_html"),
       Route(<<"docs", "oauth2-redirect">>, {"GET", "HEAD"}, docs_allow,
             "swagger_ui_redirect"),
       Route(<<"redoc">>, {"GET", "HEAD"}, docs_allow, "redoc_html"),
       Route(<<"api", "hello">>, {"POST"}, "POST", "read_root") >>

\* FastAPI() (app.py:5) registers the documentation routes in setup();
\* @app.get("/api/hello") (app.py:16) adds an APIRoute serving GET alone.
AppRoutes(docs_allow) ==
    << Route(<<"openapi.json">>, {"GET", "HEAD"}, docs_allow, "openapi"),
       Route(<<"docs">>, {"GET", "HEAD"}, docs_allow, "swagger_ui_html"),
       Route(<<"docs", "oauth2-redirect">>, {"GET", "HEAD"}, docs_allow,
             "swagger_ui_redirect"),
       Route(<<"redoc">>, {"GET", "HEAD"}, docs_allow, "redoc_html"),
       Route(<<"api", "hello">>, {"GET"}, "GET", "read_root") >>

(***************************** responses **********************************)
NoLocation == <<>>

Response(status, headers, location, body) ==
    [status |-> status, headers |-> headers, location |-> location, body |-> body]

JSONResponse(status, body, headers) ==
    Response(status, headers @@ Header("content-type", "application/json"),
             NoLocation, body)

HTMLResponse(status, body) ==
    Response(status, Header("content-type", "text/html; charset=utf-8"),
             NoLocation, body)

PlainTextResponse(status, body, headers) ==
    Response(status, headers @@ Header("content-type", "text/plain; charset=utf-8"),
             NoLocation, body)

\* RedirectResponse(url): 307, a Location header, no body
RedirectResponse(path, query) ==
    Response(307, NoHeaders, <<[path |-> path, query |-> query]>>, "")

\* FastAPI's handler of an HTTPException: {"detail": <reason phrase>}
HTTPExceptionResponse(status, headers) ==
    JSONResponse(status,
                 IF status = 404 THEN "{\"detail\":\"Not Found\"}"
                 ELSE "{\"detail\":\"Method Not Allowed\"}",
                 headers)

\* app.py:17-18  def read_root(): return {"message": "Hello from Python!"}
read_root == "{\"message\":\"Hello from Python!\"}"

\* app.openapi_schema before any request for the schema
NoSchema == ""

\* get_openapi(routes=self.routes, ...): the schema of the application's
\* routes, which no request changes; its text is named, not spelled.
get_openapi == "<the OpenAPI schema>"

\* FastAPI.openapi(): if not self.openapi_schema: self.openapi_schema =
\* get_openapi(...); return self.openapi_schema.  The value of the cache
\* after the call, which is also what the call returns.
openapi(schema) == IF schema = NoSchema THEN get_openapi ELSE schema

\* The response an endpoint's return value is turned into.
EndpointResponse(endpoint, schema) ==
    CASE endpoint = "read_root" -> JSONResponse(200, read_root, NoHeaders)
      [] endpoint = "openapi" -> JSONResponse(200, openapi(schema), NoHeaders)
      [] endpoint = "swagger_ui_html" -> HTMLResponse(200, "<the Swagger UI page>")
      [] endpoint = "swagger_ui_redirect" ->
            HTMLResponse(200, "<the Swagger UI OAuth2 redirect page>")
      [] OTHER -> HTMLResponse(200, "<the ReDoc page>")

(******************************* the router *******************************)
\* path followed by a line feed, as in "/api/hello\n" (GET /api/hello%0A)
WithFinalNewline(path) == [path EXCEPT ![Len(path)] = @ \o "\n"]

\* Route.path_regex.match(path): the route's path is compiled to the regular
\* expression ^<path>$, and $ matches at the end of the string and also
\* before a line feed that ends it.
PathRegexMatches(route_path, path) ==
    path = route_path \/ path = WithFinalNewline(route_path)

\* Mutant: the route's path is matched as a prefix of the request's.
MatchPrefix(route, method, path, query) ==
    IF ~PathRegexMatches(route.path, path)
          /\ (Len(path) < Len(route.path)
                \/ SubSeq(path, 1, Len(route.path)) # route.path) THEN "NONE"
    ELSE IF method \in route.methods THEN "FULL"
    ELSE "PARTIAL"

\* Mutant: the route's path is matched against the path with its query string.
MatchRawUrl(route, method, path, query) ==
    IF ~PathRegexMatches(route.path, path) \/ query # "" THEN "NONE"
    ELSE IF method \in route.methods THEN "FULL"
    ELSE "PARTIAL"

\* Route.matches: the path must match the route's regular expression; the
\* query string is not part of scope["path"].  A route of the path that
\* does not serve the method matches partially.
Match(route, method, path, query) ==
    IF ~PathRegexMatches(route.path, path) THEN "NONE"
    ELSE IF method \in route.methods THEN "FULL"
    ELSE "PARTIAL"

RECURSIVE RStrip(_)
\* path.rstrip("/")
RStrip(path) ==
    IF path # <<>> /\ path[Len(path)] = ""
        THEN RStrip(SubSeq(path, 1, Len(path) - 1))
        ELSE path

EndsWithSlash(path) == path # <<>> /\ path[Len(path)] = ""

\* Router.app, redirect_slashes: the path with its trailing slashes
\* stripped, or with one added
RedirectPath(path) ==
    IF EndsWithSlash(path) THEN RStrip(path) ELSE Append(path, "")

Matching(rts, kind, method, path, query) ==
    {i \in DOMAIN rts : Match(rts[i], method, path, query) = kind}

First(S) == CHOOSE i \in S : \A j \in S : i <= j

\* Router.app: the endpoint the request is routed to ("" when there is
\* none), the response it gets and app.openapi_schema after it.
Routed(endpoint, resp, schema) ==
    [endpoint |-> endpoint, resp |-> resp, schema |-> schema]

Router(rts, schema, req) ==
    LET full == Matching(rts, "FULL", req.method, req.path, req.query)
        partial == Matching(rts, "PARTIAL", req.method, req.path, req.query)
        redirect == RedirectPath(req.path)
    IN  IF full # {}
            THEN Routed(rts[First(full)].endpoint,
                        EndpointResponse(rts[First(full)].endpoint, schema),
                        IF rts[First(full)].endpoint = "openapi"
                            THEN openapi(schema) ELSE schema)
        ELSE IF partial # {}
            \* Route.handle: the route does not serve the method
            THEN Routed("", HTTPExceptionResponse(405,
                                Header("allow", rts[First(partial)].allow)), schema)
        ELSE IF /\ req.path # <<"">>
                /\ \E i \in DOMAIN rts :
                      Match(rts[i], req.method, redirect, req.query) # "NONE"
            THEN Routed("", RedirectResponse(redirect, req.query), schema)
        ELSE Routed("", HTTPExceptionResponse(404, NoHeaders), schema)

(**************************** CORSMiddleware *******************************)
Has(headers, name) == name \in DOMAIN headers

\* Mutant: every origin is allowed.
is_allowed_origin_any(origin) == TRUE

\* CORSMiddleware.is_allowed_origin (no allow_origin_regex is configured)
is_allowed_origin(origin) ==
    allow_all_origins \/ origin \in allow_origins

\* MutableHeaders.add_vary_header
add_vary_header(headers, vary) ==
    IF Has(headers, "vary")
        THEN [headers EXCEPT !["vary"] = @ \o ", " \o vary]
        ELSE headers @@ Header("vary", vary)

\* CORSMiddleware.allow_explicit_origin
allow_explicit_origin(headers, origin) ==
    add_vary_header(
        Header("access-control-allow-origin", origin)
            @@ [n \in DOMAIN headers \ {"access-control-allow-origin"} |-> headers[n]],
        "Origin")

\* CORSMiddleware.send on the http.response.start message of a response
\* that passes through simple_response
CorsSend(simple, reqh, resp) ==
    LET updated == simple @@ resp.headers    \* headers.update(self.simple_headers)
        origin == reqh["origin"]
        has_cookie == Has(reqh, "cookie")
    IN  [resp EXCEPT !.headers =
            IF allow_all_origins /\ has_cookie
                THEN allow_explicit_origin(updated, origin)
            ELSE IF (~allow_all_origins) /\ is_allowed_origin(origin)
                THEN allow_explicit_origin(updated, origin)
            ELSE updated]

\* Mutant: a disallowed origin is not a failure of the preflight.
PreflightFailuresMethodOnly(reqh) ==
    IF reqh["access-control-request-method"] \in Range(allow_methods)
        THEN <<>> ELSE <<"method">>

\* The failures CORSMiddleware.preflight_response collects, in its order.
\* With allow_headers=["*"] the requested headers are mirrored, not checked.
PreflightFailures(reqh) ==
    (IF is_allowed_origin(reqh["origin"]) THEN <<>> ELSE <<"origin">>)
    \o (IF reqh["access-control-request-method"] \in Range(allow_methods)
            THEN <<>> ELSE <<"method">>)

\* The headers of a preflight response: a copy of preflight_headers with the
\* allowed origin and the mirrored request headers put in
PreflightResponseHeaders(pre, reqh) ==
    (IF is_allowed_origin(reqh["origin"]) /\ preflight_explicit_allow_origin
        THEN Header("access-control-allow-origin", reqh["origin"]) ELSE NoHeaders)
    @@ (IF allow_all_headers /\ Has(reqh, "access-control-request-headers")
        THEN Header("access-control-allow-headers",
                    reqh["access-control-request-headers"])
        ELSE NoHeaders)
    @@ pre

\* CORSMiddleware.preflight_response
preflight_response(pre, reqh) ==
    LET failures == PreflightFailures(reqh)
        headers == PreflightResponseHeaders(pre, reqh)
    IN  IF failures # <<>>
            THEN PlainTextResponse(400, "Disallowed CORS " \o Join(failures), headers)
            ELSE PlainTextResponse(200, "OK", headers)

\* Mutant: preflight_response works on self.preflight_headers itself.
PreflightHeadersShared(pre, reqh) == PreflightResponseHeaders(pre, reqh)

\* preflight_response works on dict(self.preflight_headers), a copy: the
\* middleware's own preflight_headers are what they were.
PreflightHeadersAfter(pre, reqh) == pre

\* CORSMiddleware.__call__: which way a request goes
IsPreflight(req) ==
    /\ Has(req.headers, "origin")
    /\ req.method = "OPTIONS"
    /\ Has(req.headers, "access-control-request-method")

\* Mutant: the middleware sits inside the exception handling, and an error
\* response does not pass through it.
CorsWrapSuccessOnly(simple, req, resp) ==
    IF Has(req.headers, "origin") /\ resp.status < 400
        THEN CorsSend(simple, req.headers, resp) ELSE resp

\* Mutant: the headers are added whether or not the request has an Origin.
CorsWrapAlways(simple, req, resp) ==
    IF Has(req.headers, "origin") THEN CorsSend(simple, req.headers, resp)
    ELSE [resp EXCEPT !.headers =
            Header("access-control-allow-origin", "http://localhost:3000")
            @@ simple @@ resp.headers]

\* What the middleware does to the response of the wrapped app
CorsWrap(simple, req, resp) ==
    IF Has(req.headers, "origin") THEN CorsSend(simple, req.headers, resp) ELSE resp

\* The whole application on one request: the middleware around the router
\* around the endpoint.
Respond(rts, simple, pre, schema, req) ==
    IF IsPreflight(req)
        THEN preflight_response(pre, req.headers)
        ELSE CorsWrap(simple, req, Router(rts, schema, req).resp)

\* The CORSMiddleware(app, allow_origins=..., ...) that app.py:8-14 registers
CORSMiddleware(simple, pre) == [simple_headers |-> simple, preflight_headers |-> pre]

\* Starlette.build_middleware_stack: the registered middleware is
\* constructed around the router
build_middleware_stack == <<CORSMiddleware(SimpleHeadersInit, PreflightHeadersInit)>>

\* Starlette.__call__: if self.middleware_stack is None:
\*     self.middleware_stack = self.build_middleware_stack()
StackAfterCall(stack) == IF stack = <<>> THEN build_middleware_stack ELSE stack

(***************************** the requests *******************************)
Request(method, path, query, body, headers) ==
    [method |-> method, path |-> path, query |-> query, body |-> body,
     headers |-> headers]

Absent == "<absent>"
OptionalHeader(name, value) == IF value = Absent THEN NoHeaders ELSE Header(name, value)

RequestHeaders(origin, acrm, acrh, cookie) ==
    OptionalHeader("origin", origin)
    @@ OptionalHeader("access-control-request-method", acrm)
    @@ OptionalHeader("access-control-request-headers", acrh)
    @@ OptionalHeader("cookie", cookie)

RECURSIVE Slashes(_, _)
\* path followed by n more "/"
Slashes(path, n) == IF n = 0 THEN path ELSE Slashes(Append(path, ""), n - 1)

AllowedOrigin == "http://localhost:3000"
Origins == {Absent, AllowedOrigin, "http://evil.example", "https://localhost:3000"}
Methods == {"GET", "HEAD", "POST", "OPTIONS"}
BasePaths ==
    { <<"">>, <<"api">>, <<"api", "hello">>, <<"api", "unknown">>, <<"docs">>,
      <<"docs", "oauth2-redirect">>, <<"openapi.json">>, <<"redoc">> }
\* each base path, and it followed by a line feed (%0A), then the slashes
Paths ==
    {Slashes(q, n) :
        q \in BasePaths \cup {WithFinalNewline(p) : p \in BasePaths},
        n \in 0..MaxTrailing}
Queries == {"", "name=x"}
Bodies == {"", "{\"name\":\"x\"}"}
RequestedMethods == {Absent, "GET", "DELETE", "TRACE"}
RequestedHeaders == {Absent, "authorization, x-custom"}
Cookies == {Absent, "session=1"}

HeaderSets ==
    {RequestHeaders(o, m, h, k) :
        o \in Origins, m \in RequestedMethods, h \in RequestedHeaders, k \in Cookies}

\* The requests a client may send on the one connection of Spec
Requests ==
    {Request(m, p, q, b, h) :
        m \in Methods, p \in Paths, q \in Queries, b \in Bodies, h \in HeaderSets}

\* The requests of the concurrent specification
ConcOrigins == {Absent, AllowedOrigin, "http://evil.example"}
ConcPaths ==
    { <<"api", "hello">>, <<"openapi.json">>, Slashes(<<"api", "unknown">>, MaxTrailing) }
ConcRequests ==
    {Request("GET", p, "", "", RequestHeaders(o, Absent, Absent, Absent)) :
        p \in ConcPaths, o \in ConcOrigins}
    \cup {Request("OPTIONS", p, "", "", RequestHeaders(o, "GET", Absent, Absent)) :
        p \in {<<"api", "hello">>, <<"openapi.json">>}, o \in ConcOrigins}

(*************************** the state machine ****************************)
NoRequest == Request("", <<>>, "", "", NoHeaders)
NoResponse == Response(0, NoHeaders, NoLocation, "")

Conn(stage, req, resp) == [stage |-> stage, req |-> req, resp |-> resp]

Init ==
    /\ routes \in {AppRoutes(a) : a \in DocsAllowOrders}
    /\ middleware_stack = <<>>
    /\ openapi_schema = NoSchema
    /\ conn = [c \in Conns |-> Conn("idle", NoRequest, NoResponse)]

\* The server's lifespan call, when the hosting server makes one before it
\* accepts connections: Starlette.__call__ builds the middleware stack.
Startup ==
    /\ middleware_stack = <<>>
    /\ \A c \in Conns : conn[c].stage = "idle"
    /\ middleware_stack' = StackAfterCall(middleware_stack)
    /\ UNCHANGED <<routes, openapi_schema, conn>>

\* The server reads a request, one of reqs, from connection c.
Receive(c, reqs) ==
    /\ conn[c].stage = "idle"
    /\ \E req \in reqs : conn' = [conn EXCEPT ![c] = Conn("received", req, NoResponse)]
    /\ UNCHANGED <<routes, middleware_stack, openapi_schema>>

\* Starlette.__call__ (which builds the middleware stack if there is none),
\* CORSMiddleware.__call__ and, for a request that is no preflight, the
\* router and an async endpoint.  read_root is a plain def: FastAPI runs it
\* in the thread pool, and the request waits for it while other requests are
\* handled.
Dispatch(c) ==
    LET req == conn[c].req
        stack == StackAfterCall(middleware_stack)
        cors == stack[1]
        routed == Router(routes, openapi_schema, req)
    IN  /\ conn[c].stage = "received"
        /\ IF IsPreflight(req)
              THEN /\ conn' = [conn EXCEPT ![c] =
                          Conn("sent", req,
                               preflight_response(cors.preflight_headers, req.headers))]
                   /\ middleware_stack' =
                          <<CORSMiddleware(cors.simple_headers,
                                PreflightHeadersAfter(cors.preflight_headers, req.headers))>>
                   /\ UNCHANGED openapi_schema
              ELSE /\ conn' = [conn EXCEPT ![c] =
                          IF routed.endpoint = "read_root"
                             THEN Conn("endpoint", req, NoResponse)
                             ELSE Conn("sent", req,
                                       CorsWrap(cors.simple_headers, req, routed.resp))]
                   /\ middleware_stack' = stack
                   /\ openapi_schema' = routed.schema
        /\ UNCHANGED routes

\* read_root returns; its value is serialised and sent through the
\* middleware.
ReadRoot(c) ==
    /\ conn[c].stage = "endpoint"
    /\ conn' = [conn EXCEPT ![c] =
            Conn("sent", conn[c].req,
                 CorsWrap(middleware_stack[1].simple_headers, conn[c].req,
                          EndpointResponse("read_root", openapi_schema)))]
    /\ UNCHANGED <<routes, middleware_stack, openapi_schema>>

\* The client has the response; the connection takes the next request.
Close(c) ==
    /\ conn[c].stage = "sent"
    /\ conn' = [conn EXCEPT ![c] = Conn("idle", NoRequest, NoResponse)]
    /\ UNCHANGED <<routes, middleware_stack, openapi_schema>>

\* One connection, every request of Requests, one request after another.
Next ==
    \/ Startup
    \/ Receive(1, Requests)
    \/ Dispatch(1)
    \/ ReadRoot(1)
    \/ Close(1)

Spec == Init /\ [][Next]_vars

\* MaxConn connections handled concurrently.
ConcNext ==
    \/ Startup
    \/ \E c \in Conns :
        \/ Receive(c, ConcRequests)
        \/ Dispatch(c)
        \/ ReadRoot(c)
        \/ Close(c)

ConcSpec == Init /\ [][ConcNext]_vars

(******************************* the claims *******************************)
Sent(c) == conn[c].stage = "sent"
HelloPath == <<"api", "hello">>
HelloBody == "{\"message\":\"Hello from Python!\"}"
ACAO == "access-control-allow-origin"
ACAC == "access-control-allow-credentials"
OriginOf(req) == req.headers["origin"]
HasOrigin(req) == "origin" \in DOMAIN req.headers
FromAllowed(req) == HasOrigin(req) /\ OriginOf(req) = "http://localhost:3000"
FromOther(req) == HasOrigin(req) /\ OriginOf(req) # "http://localhost:3000"
PreflightRequest(req) ==
    /\ HasOrigin(req)
    /\ req.method = "OPTIONS"
    /\ "access-control-request-method" \in DOMAIN req.headers
Permits(resp) ==
    /\ ACAO \in DOMAIN resp.headers
    /\ resp.headers[ACAO] = "http://localhost:3000"
    /\ ACAC \in DOMAIN resp.headers
    /\ resp.headers[ACAC] = "true"

\* C1: every GET /api/hello without parameters, after any sequence of
\* earlier requests, is answered 200 with the JSON body
\* {"message": "Hello from Python!"}.
C1_HelloIs200WithGreeting ==
    \A c \in Conns :
        (/\ Sent(c)
         /\ conn[c].req.method = "GET"
         /\ conn[c].req.path = HelloPath
         /\ conn[c].req.query = "")
        => /\ conn[c].resp.status = 200
           /\ conn[c].resp.body = HelloBody
           /\ conn[c].resp.headers["content-type"] = "application/json"

C1_Witness ==
    /\ Sent(1)
    /\ conn[1].req.method = "GET"
    /\ conn[1].req.path = HelloPath
    /\ conn[1].req.query = ""
    /\ conn[1].req.body = ""
    /\ ~HasOrigin(conn[1].req)
    /\ conn[1].resp.status = 200

\* C2: every response to a request whose Origin is http://localhost:3000,
\* whatever its path and method, carries Access-Control-Allow-Origin:
\* http://localhost:3000 and Access-Control-Allow-Credentials: true.
C2_AllowedOriginIsPermitted ==
    \A c \in Conns :
        (Sent(c) /\ FromAllowed(conn[c].req)) => Permits(conn[c].resp)

\* an error response (a 404, a 405 or a refused preflight) to the allowed origin
C2_Witness ==
    /\ Sent(1)
    /\ FromAllowed(conn[1].req)
    /\ conn[1].req.path = <<"api", "unknown">>
    /\ conn[1].req.method = "POST"
    /\ conn[1].resp.status = 404
    /\ Permits(conn[1].resp)

\* C3: a GET /api/hello carrying another origin is still answered 200 with
\* the greeting, and its response has no Access-Control-Allow-Origin header
\* that matches the request's origin.
C3_OtherOriginServedNotPermitted ==
    \A c \in Conns :
        (/\ Sent(c)
         /\ conn[c].req.method = "GET"
         /\ conn[c].req.path = HelloPath
         /\ FromOther(conn[c].req))
        => /\ conn[c].resp.status = 200
           /\ conn[c].resp.body = HelloBody
           /\ \/ ACAO \notin DOMAIN conn[c].resp.headers
              \/ conn[c].resp.headers[ACAO] \notin {OriginOf(conn[c].req), "*"}

C3_Witness ==
    /\ Sent(1)
    /\ conn[1].req.method = "GET"
    /\ conn[1].req.path = HelloPath
    /\ HasOrigin(conn[1].req)
    /\ OriginOf(conn[1].req) = "http://evil.example"
    /\ conn[1].resp.status = 200
    /\ ACAO \notin DOMAIN conn[1].resp.headers

\* The paths the application serves: the greeting and the four
\* documentation routes FastAPI() registers, and each of the five followed by
\* one line feed (%0A), which the routes' regular expressions also match.
ServedPaths ==
    { <<"api", "hello">>, <<"openapi.json">>, <<"docs">>,
      <<"docs", "oauth2-redirect">>, <<"redoc">>,
      <<"api", "hello\n">>, <<"openapi.json\n">>, <<"docs\n">>,
      <<"docs", "oauth2-redirect\n">>, <<"redoc\n">> }
SlashesAfterServed(path) ==
    \E q \in ServedPaths : \E n \in 1..Len(path) : path = Slashes(q, n)
NotFoundBody == "{\"detail\":\"Not Found\"}"

\* C4 as stated: every request to a path other than /api/hello is answered
\* 404, and no other path is served with a successful response.
C4_OnlyHelloIsServed ==
    \A c \in Conns :
        (Sent(c) /\ conn[c].req.path # HelloPath) => conn[c].resp.status = 404

\* C4, amended: call served the paths /api/hello, /openapi.json, /docs,
\* /docs/oauth2-redirect and /redoc, and each of these followed by one line
\* feed (%0A).  A request that is no CORS preflight, to a path that is
\* neither served nor a served path followed by slashes, is answered 404
\* {"detail":"Not Found"}; a served path followed by slashes is answered
\* with a 307 redirect to it; a request to /api/hello followed by a line
\* feed is answered as /api/hello is; and only served paths get a 2xx
\* response to a request that is no preflight.
C4_UnroutedPathsAre404 ==
    \A c \in Conns :
        (Sent(c) /\ ~PreflightRequest(conn[c].req)) =>
            /\ (conn[c].req.path \notin ServedPaths
                    /\ ~SlashesAfterServed(conn[c].req.path))
               => /\ conn[c].resp.status = 404
                  /\ conn[c].resp.body = NotFoundBody
            /\ SlashesAfterServed(conn[c].req.path)
               => /\ conn[c].resp.status = 307
                  /\ Len(conn[c].resp.location) = 1
                  /\ conn[c].resp.location[1].path \in ServedPaths
                  /\ \E n \in 1..Len(conn[c].req.path) :
                        conn[c].req.path = Slashes(conn[c].resp.location[1].path, n)
                  /\ conn[c].resp.location[1].query = conn[c].req.query
            /\ conn[c].resp.status \in 200..299
               => conn[c].req.path \in ServedPaths
            /\ conn[c].req.path = <<"api", "hello\n">>
               => /\ conn[c].resp.status = (IF conn[c].req.method = "GET" THEN 200 ELSE 405)
                  /\ conn[c].req.method = "GET" => conn[c].resp.body = HelloBody

C4_Witness ==
    /\ Sent(1)
    /\ conn[1].req.method = "GET"
    /\ conn[1].req.path = <<"api", "unknown">>
    /\ ~HasOrigin(conn[1].req)
    /\ conn[1].resp.status = 404
    /\ conn[1].resp.body = NotFoundBody

StandardMethods == {"DELETE", "GET", "HEAD", "OPTIONS", "PATCH", "POST", "PUT"}
RequestedMethod(req) == req.headers["access-control-request-method"]
MirrorsRequestedHeaders(req, resp) ==
    "access-control-request-headers" \in DOMAIN req.headers
    => /\ "access-control-allow-headers" \in DOMAIN resp.headers
       /\ resp.headers["access-control-allow-headers"]
              = req.headers["access-control-request-headers"]

\* C5 as stated: a preflight from http://localhost:3000, for any requested
\* method and any requested headers, is answered with a successful response
\* that permits the method and the headers.
C5_AnyMethodIsPermitted ==
    \A c \in Conns :
        (Sent(c) /\ PreflightRequest(conn[c].req) /\ FromAllowed(conn[c].req))
        => /\ conn[c].resp.status = 200
           /\ MirrorsRequestedHeaders(conn[c].req, conn[c].resp)

\* C5, amended: a preflight from http://localhost:3000 that requests one of
\* the methods DELETE, GET, HEAD, OPTIONS, PATCH, POST, PUT, with any
\* requested headers, is answered 200 with Access-Control-Allow-Methods
\* listing these seven methods and Access-Control-Allow-Headers repeating the
\* requested headers; a preflight that requests any other method is
\* answered 400 "Disallowed CORS method".
C5_StandardMethodsArePermitted ==
    \A c \in Conns :
        (Sent(c) /\ PreflightRequest(conn[c].req) /\ FromAllowed(conn[c].req))
        => /\ MirrorsRequestedHeaders(conn[c].req, conn[c].resp)
           /\ conn[c].resp.headers["access-control-allow-methods"]
                  = "DELETE, GET, HEAD, OPTIONS, PATCH, POST, PUT"
           /\ Permits(conn[c].resp)
           /\ IF RequestedMethod(conn[c].req) \in StandardMethods
                 THEN conn[c].resp.status = 200 /\ conn[c].resp.body = "OK"
                 ELSE /\ conn[c].resp.status = 400
                      /\ conn[c].resp.body = "Disallowed CORS method"

C5_Witness ==
    /\ Sent(1)
    /\ PreflightRequest(conn[1].req)
    /\ FromAllowed(conn[1].req)
    /\ RequestedMethod(conn[1].req) = "DELETE"
    /\ conn[1].req.path = <<"api", "unknown">>
    /\ "access-control-request-headers" \in DOMAIN conn[1].req.headers
    /\ conn[1].req.headers["access-control-request-headers"] = "authorization, x-custom"
    /\ conn[1].resp.status = 200

\* The same request sent from http://localhost:3000, and the response the
\* application gives it.
FromLocalhost(req) ==
    [req EXCEPT !.headers = [n \in DOMAIN req.headers |->
        IF n = "origin" THEN "http://localhost:3000" ELSE req.headers[n]]]
ResponseTo(req) ==
    Respond(routes, middleware_stack[1].simple_headers,
            middleware_stack[1].preflight_headers, openapi_schema, req)
PermissiveHeaders == {ACAO, "vary"}

\* C6 as stated: a request from another origin, preflights included, gets
\* the status and body the identical request from http://localhost:3000
\* gets.
C6_OriginNeverChangesStatus ==
    \A c \in Conns :
        (Sent(c) /\ FromOther(conn[c].req))
        => /\ conn[c].resp.status = ResponseTo(FromLocalhost(conn[c].req)).status
           /\ conn[c].resp.body = ResponseTo(FromLocalhost(conn[c].req)).body

\* C6, amended: a request from another origin that is no CORS preflight gets
\* the status and body the identical request from http://localhost:3000
\* gets, and its headers without Access-Control-Allow-Origin and Vary
\* (Access-Control-Allow-Credentials: true is still sent); a preflight from
\* another origin is refused with 400 and a body that begins "Disallowed
\* CORS origin", and has no Access-Control-Allow-Origin header.
C6_OriginChangesOnlyPreflights ==
    \A c \in Conns :
        (Sent(c) /\ FromOther(conn[c].req)) =>
            LET twin == ResponseTo(FromLocalhost(conn[c].req))
                resp == conn[c].resp
            IN  IF PreflightRequest(conn[c].req)
                   THEN /\ resp.status = 400
                        /\ resp.body \in {"Disallowed CORS origin",
                                          "Disallowed CORS origin, method"}
                        /\ ACAO \notin DOMAIN resp.headers
                        /\ twin.status \in {200, 400}
                        /\ twin.body \in {"OK", "Disallowed CORS method"}
                   ELSE /\ resp.status = twin.status
                        /\ resp.body = twin.body
                        /\ resp.location = twin.location
                        /\ DOMAIN resp.headers = DOMAIN twin.headers \ PermissiveHeaders
                        /\ \A n \in DOMAIN resp.headers : resp.headers[n] = twin.headers[n]
                        /\ resp.headers[ACAC] = "true"

\* a refused preflight whose twin from the allowed origin succeeds
C6_Witness ==
    /\ Sent(1)
    /\ PreflightRequest(conn[1].req)
    /\ OriginOf(conn[1].req) = "http://evil.example"
    /\ RequestedMethod(conn[1].req) = "GET"
    /\ conn[1].resp.status = 400
    /\ ResponseTo(FromLocalhost(conn[1].req)).status = 200

\* C7 as stated: every response, to a request with or without an Origin,
\* carries the headers permitting http://localhost:3000 and credentials.
C7_EveryResponsePermits ==
    \A c \in Conns : Sent(c) => Permits(conn[c].resp)

\* C7, amended: a response carries Access-Control-Allow-Origin (and then
\* with the value http://localhost:3000) exactly when the request's Origin
\* is http://localhost:3000, and carries Access-Control-Allow-Credentials:
\* true exactly when the request has an Origin header.
C7_HeadersFollowTheOrigin ==
    \A c \in Conns :
        Sent(c) =>
            /\ (ACAO \in DOMAIN conn[c].resp.headers) <=> FromAllowed(conn[c].req)
            /\ (ACAC \in DOMAIN conn[c].resp.headers) <=> HasOrigin(conn[c].req)
            /\ FromAllowed(conn[c].req) => Permits(conn[c].resp)
            /\ HasOrigin(conn[c].req) => conn[c].resp.headers[ACAC] = "true"

\* a response to a request without Origin: no cross-origin header at all
C7_Witness ==
    /\ Sent(1)
    /\ ~HasOrigin(conn[1].req)
    /\ conn[1].req.method = "OPTIONS"
    /\ "access-control-request-method" \in DOMAIN conn[1].req.headers
    /\ conn[1].req.path = HelloPath
    /\ conn[1].resp.status = 405
    /\ ACAO \notin DOMAIN conn[1].resp.headers
    /\ ACAC \notin DOMAIN conn[1].resp.headers

\* The response the application gives a request that is the only one it
\* ever serves: the middleware as constructed, the schema cache empty.
Alone(req) == Respond(routes, SimpleHeadersInit, PreflightHeadersInit, NoSchema, req)
EveryResponseIsAsAlone ==
    \A c \in Conns : conn'[c].stage = "sent" => conn'[c].resp = Alone(conn'[c].req)
RequestStep == conn' # conn

\* C8 as stated: the server stays in one state that no request changes, and
\* under any interleaving every response is the one its request would get
\* if it were the only request ever served.
C8_NoRequestChangesTheServer ==
    [][RequestStep =>
          /\ routes' = routes
          /\ middleware_stack' = middleware_stack
          /\ openapi_schema' = openapi_schema
          /\ EveryResponseIsAsAlone]_vars

\* C8, amended: a request changes nothing of the server but two caches, each
\* written once and with a value that does not depend on the request: the
\* middleware stack, which the first call of the app builds (with the CORS
\* headers of the configuration, never changed after), and the OpenAPI
\* schema, which the first request served by /openapi.json stores.  The
\* routes never change, and under any interleaving every response is the one
\* its request would get if it were the only request ever served.
C8_RequestsAreIndependent ==
    [][/\ routes' = routes
       /\ middleware_stack' = build_middleware_stack \/ middleware_stack' = middleware_stack
       /\ middleware_stack # <<>> => middleware_stack' = middleware_stack
       /\ openapi_schema' = get_openapi \/ openapi_schema' = openapi_schema
       /\ openapi_schema # NoSchema => openapi_schema' = openapi_schema
       /\ openapi_schema' # openapi_schema =>
             \E c \in Conns : /\ conn[c].stage = "received"
                              /\ conn[c].req.method \in {"GET", "HEAD"}
                              /\ conn[c].req.path \in {<<"openapi.json">>, <<"openapi.json\n">>}
                              /\ conn'[c].stage = "sent"
       /\ EveryResponseIsAsAlone]_vars

\* the schema is cached and served from the cache to a second connection
\* while a greeting for the allowed origin waits in the thread pool
C8_Witness ==
    /\ conn[1].stage = "endpoint"
    /\ FromAllowed(conn[1].req)
    /\ openapi_schema = get_openapi
    /\ middleware_stack = build_middleware_stack
    /\ Sent(2)
    /\ conn[2].req.path = <<"openapi.json">>
    /\ conn[2].req.method = "GET"
    /\ conn[2].resp.status = 200
    /\ conn[2].resp.body = get_openapi

\* The request with only its method, path and Origin left.
Bare(req) ==
    [req EXCEPT !.query = "", !.body = "",
                !.headers = [n \in DOMAIN req.headers \cap {"origin"} |-> req.headers[n]]]

\* C9: a GET /api/hello gets status 200 and the body that the request with
\* its query, body and headers other than Origin removed gets; so any two
\* that differ only in these get the same status and body.
C9_HelloReadsNoInput ==
    \A c \in Conns :
        (Sent(c) /\ conn[c].req.method = "GET" /\ conn[c].req.path = HelloPath)
        => /\ conn[c].resp.status = 200
           /\ conn[c].resp.status = ResponseTo(Bare(conn[c].req)).status
           /\ conn[c].resp.body = ResponseTo(Bare(conn[c].req)).body

C9_Witness ==
    /\ Sent(1)
    /\ conn[1].req.method = "GET"
    /\ conn[1].req.path = HelloPath
    /\ conn[1].req.query = "name=x"
    /\ conn[1].req.body # ""
    /\ DOMAIN conn[1].req.headers =
          {"origin", "cookie", "access-control-request-method",
           "access-control-request-headers"}
    /\ conn[1].resp.body = HelloBody

\* C10: no response carries an Access-Control-Allow-Origin other than
\* http://localhost:3000 (not "*", not another origin), so
\* Access-Control-Allow-Credentials: true is never sent with another one.
C10_OnlyLocalhostIsEverAllowed ==
    \A c \in Conns :
        (Sent(c) /\ ACAO \in DOMAIN conn[c].resp.headers)
        => /\ conn[c].resp.headers[ACAO] = "http://localhost:3000"
           /\ FromAllowed(conn[c].req)

\* a credentialed request from an origin that differs in the scheme alone
C10_Witness ==
    /\ Sent(1)
    /\ HasOrigin(conn[1].req)
    /\ OriginOf(conn[1].req) = "https://localhost:3000"
    /\ "cookie" \in DOMAIN conn[1].req.headers
    /\ conn[1].resp.headers[ACAC] = "true"
    /\ ACAO \notin DOMAIN conn[1].resp.headers

=============================================================================
